---- MODULE Spec2Model ----
(***************************************************************************)
(* Build-time engine of the vector index:                                  *)
(*   - quantizer codec storage (write_pq / read_pq), a tensor split over a *)
(*     backward-linked chain of page records;                              *)
(*   - the in-memory incremental graph builder (BuilderGraph).             *)
(* The two parts share the module but are verified under their own         *)
(* specifications: SpecPQ (and SpecPQFair, for termination) for the codec  *)
(* storage; SpecGraph (set_neighbors and write) and SpecQuery              *)
(* (set_neighbors and the queries) for the builder.                        *)
(***************************************************************************)
EXTENDS Integers, Sequences, FiniteSets, TLC

VARIABLES
    \* ---- quantizer codec storage ----
    BLCKSZ,      \* host block size in bytes (a build constant of the host)
    index,       \* the index relation: records appended by the tapes, by block
    pq,          \* the quantizer handed to write_pq: [dim, data]
    w_pc,        \* position of write_pq: idle | loop | done | aborted
    pq_node,     \* write_pq: the PqQuantizerDef header under construction
    prev,        \* write_pq: pointer of the chunk written last
    prev_vec,    \* write_pq: elements still to be written
    w_ret,       \* write_pq: the returned header pointer
    corrupted,   \* whether the stored chain was damaged after the encode
    r_pc,        \* position of read_pq: idle | loop | done | panic
    rpn,         \* read_pq: the archived header
    result,      \* read_pq: elements assembled so far
    next,        \* read_pq: pointer of the next chunk to read
    r_hops,      \* read_pq: chunks read so far
    r_ret,       \* read_pq: the returned quantizer [dim, data]
    \* ---- in-memory graph builder ----
    neighbor_map,  \* BuilderGraph.neighbor_map: node pointer -> neighbor list
    meta_page,     \* BuilderGraph.meta_page: the builder's metadata snapshot
    index_meta,    \* the meta page as stored in the index relation
    node_records,  \* the node records stored in the index relation
    g_pc,          \* lifecycle of the builder: build | written | rewritten
    stats,         \* the WriteStats returned by the last write
    prune_calls,   \* per node, the extra-candidate lists handed to the
                   \* pruning policy by the last write
    write_no,      \* number of write invocations so far
    policy,        \* per node, the answer the pruning policy has given for it
    events,        \* per node, the steps the last write took on its record
    last_quantizer,  \* the quantizer handed to the last write ("-" before)
    query,         \* the last query made of the builder since its latest
                   \* set_neighbors call, and what it returned
    last_set,      \* history: per node, the list of its latest set_neighbors
                   \* call, and whether that call came after an earlier one
                   \* with a non-empty list
    first_set,     \* history: on a builder created without entry points,
                   \* the node pointer of its first set_neighbors call
    init0          \* history: the entry points the builder was created with

pqvars == <<BLCKSZ, index, pq, w_pc, pq_node, prev, prev_vec, w_ret,
            corrupted, r_pc, rpn, result, next, r_hops, r_ret>>

gvars == <<neighbor_map, meta_page, index_meta, node_records, g_pc, stats,
           prune_calls, write_no, policy, events, last_quantizer, query,
           last_set, first_set, init0>>

vars == <<pqvars, gvars>>

----------------------------------------------------------------------------
\* Bounds of the model.

\* largest first dimension of the centroid tensor (0 gives an empty tensor)
MaxDim0 == 2
\* largest second dimension
MaxDim1 == 2
\* largest third dimension
MaxDim2 == 2
\* the tensor's elements are Seed+1, Seed+2, ... for a Seed in 0..MaxSeed
MaxSeed == 1
\* block sizes tried give block_fit = 0 .. MaxFit
MaxFit == 3
\* number of records the page store holds before it refuses to allocate
MaxPages == 10
\* read_pq: hops counted, and elements of their chunks kept, exactly; more
\* than any chain without a cycle has chunks (fewer than MaxPages)
MaxHops == 16

----------------------------------------------------------------------------
\* Addressing primitives.

ItemPointerOf(b, o) == [block_number |-> b, offset |-> o]

\* the zero/zero pointer terminating a chain
NullPointer == ItemPointerOf(0, 0)

IsNull(p) == p.offset = 0 /\ p.block_number = 0

\* size_of::<f32>()
SizeOfF32 == 4
\* size_of::<ItemPointer>()
SizeOfItemPointer == 8
\* the margin subtracted for bookkeeping
ReservedElements == 64

\* numbers that fit in a page
BlockFit(blcksz) ==
    (blcksz \div SizeOfF32) - SizeOfItemPointer - ReservedElements

\* the smallest block size for which block_fit does not underflow: it gives
\* block_fit = 0
MinBlockSize == SizeOfF32 * (SizeOfItemPointer + ReservedElements)

BlockSizes == { MinBlockSize + SizeOfF32 * k : k \in 0..MaxFit }

----------------------------------------------------------------------------
\* The tape (paged append log) and record reads.

\* Tape::write: the record is appended and its address returned; block 0 is
\* the meta page, offsets start at 1
TapePointer(idx) == ItemPointerOf(Len(idx) + 1, 1)

TapeWrite(idx, rec) == Append(idx, rec)

TapeFull(idx) == Len(idx) >= MaxPages

\* ItemPointer::read_bytes
ReadBytes(idx, p) == idx[p.block_number]

----------------------------------------------------------------------------
\* Records.

PqQuantizerDefNew(d0, d1, d2, n) ==
    [kind |-> "PqQuantizerDef", dim_0 |-> d0, dim_1 |-> d1, dim_2 |-> d2,
     vec_len |-> n, vec |-> <<>>, next_vector_pointer |-> NullPointer]

\* (faulty variant) the chunk is written without its back-pointer
PqQuantizerVectorUnlinked(v, nxt) ==
    [kind |-> "PqQuantizerVector", dim_0 |-> 0, dim_1 |-> 0, dim_2 |-> 0,
     vec_len |-> 0, vec |-> v, next_vector_pointer |-> NullPointer]

PqQuantizerVectorOf(v, nxt) ==
    [kind |-> "PqQuantizerVector", dim_0 |-> 0, dim_1 |-> 0, dim_2 |-> 0,
     vec_len |-> 0, vec |-> v, next_vector_pointer |-> nxt]

NoRecord == PqQuantizerDefNew(0, 0, 0, 0)

\* a quantizer: the centroid tensor's shape and its elements in memory order
RECURSIVE Elements(_, _)
Elements(n, seed) ==
    IF n = 0 THEN <<>> ELSE Append(Elements(n - 1, seed), seed + n)

PqOf(d0, d1, d2, seed) ==
    [dim |-> <<d0, d1, d2>>, data |-> Elements(d0 * d1 * d2, seed)]

NoPq == [dim |-> <<0, 0, 0>>, data |-> <<>>]

Quantizers ==
    { PqOf(d0, d1, d2, s) :
        d0 \in 0..MaxDim0, d1 \in 1..MaxDim1, d2 \in 1..MaxDim2,
        s \in 0..MaxSeed }

----------------------------------------------------------------------------
\* write_pq

\* (faulty variant) the loop is left with one element still to write
LoopDoneEarly(l) == l <= 1

\* loop exit: nothing is left to write
LoopDone(l) == l = 0

\* (faulty variant) a chunk of one element whenever more than a page is left
SplitIndexOne(l, block_fit) == IF l > block_fit THEN l - 1 ELSE 0

\* index at which the remaining elements are split
SplitIndex(l, block_fit) == IF l > block_fit THEN l - block_fit ELSE 0

\* (faulty variant) the elements written stay among those still to write
SplitBAll(lv, ni) == lv

\* lv.split_at(ni): (b, a)
SplitB(lv, ni) == SubSeq(lv, 1, ni)
\* (faulty variant) the chunk is taken from the front of the remaining elements
SplitAFront(lv, ni) == SubSeq(lv, 1, Len(lv) - ni)

SplitA(lv, ni) == SubSeq(lv, ni + 1, Len(lv))

WritePqBegin(p) ==
    /\ w_pc = "idle"
    /\ pq' = p
    /\ pq_node' = PqQuantizerDefNew(p.dim[1], p.dim[2], p.dim[3], Len(p.data))
    /\ prev' = NullPointer
    /\ prev_vec' = p.data
    /\ w_pc' = "loop"
    /\ UNCHANGED <<gvars, BLCKSZ, index, w_ret, corrupted, r_pc, rpn, result,
                   next, r_hops, r_ret>>

WritePqChunk ==
    /\ w_pc = "loop"
    /\ ~LoopDone(Len(prev_vec))
    /\ ~TapeFull(index)
    /\ LET l == Len(prev_vec)
           ni == SplitIndex(l, BlockFit(BLCKSZ))
           pqv_node == PqQuantizerVectorOf(SplitA(prev_vec, ni), prev)
       IN /\ index' = TapeWrite(index, pqv_node)
          /\ prev' = TapePointer(index)
          /\ prev_vec' = SplitB(prev_vec, ni)
    /\ UNCHANGED <<gvars, BLCKSZ, pq, w_pc, pq_node, w_ret, corrupted, r_pc,
                   rpn, result, next, r_hops, r_ret>>

WritePqHeader ==
    /\ w_pc = "loop"
    /\ LoopDone(Len(prev_vec))
    /\ ~TapeFull(index)
    /\ pq_node' = [pq_node EXCEPT !.next_vector_pointer = prev]
    /\ index' = TapeWrite(index, pq_node')
    /\ w_ret' = TapePointer(index)
    /\ w_pc' = "done"
    /\ UNCHANGED <<gvars, BLCKSZ, pq, prev, prev_vec, corrupted, r_pc, rpn,
                   result, next, r_hops, r_ret>>

\* the page store refuses to allocate: the write raises and write_pq is left
WritePqAllocFault ==
    /\ w_pc = "loop"
    /\ w_pc' = "aborted"
    /\ UNCHANGED <<gvars, BLCKSZ, index, pq, pq_node, prev, prev_vec, w_ret,
                   corrupted, r_pc, rpn, result, next, r_hops, r_ret>>

----------------------------------------------------------------------------
\* Damage to the stored chain between encode and decode: one chunk's
\* back-pointer is overwritten with another record address.

ChunkBlocks(idx) == { b \in 1..Len(idx) : idx[b].kind = "PqQuantizerVector" }

HeaderBlocks(idx) == { b \in 1..Len(idx) : idx[b].kind = "PqQuantizerDef" }

Corrupt(b, t) ==
    /\ w_pc = "done"
    /\ r_pc = "idle"
    /\ ~corrupted
    /\ b \in ChunkBlocks(index)
    /\ t \in ChunkBlocks(index)
    /\ index[b].next_vector_pointer # ItemPointerOf(t, 1)
    /\ index' = [index EXCEPT ![b].next_vector_pointer = ItemPointerOf(t, 1)]
    /\ corrupted' = TRUE
    /\ UNCHANGED <<gvars, BLCKSZ, pq, w_pc, pq_node, prev, prev_vec, w_ret,
                   r_pc, rpn, result, next, r_hops, r_ret>>

----------------------------------------------------------------------------
\* read_pq

ReadPqBegin ==
    /\ w_pc = "done"
    /\ r_pc = "idle"
    /\ rpn' = ReadBytes(index, w_ret)
    /\ result' = <<>>
    /\ next' = rpn'.next_vector_pointer
    /\ r_hops' = 0
    /\ r_pc' = "loop"
    /\ UNCHANGED <<gvars, BLCKSZ, index, pq, w_pc, pq_node, prev, prev_vec,
                   w_ret, corrupted, r_ret>>

\* one pass of the loop that reads a chunk. The loop has no bound of its own:
\* on a chain with a cycle it is taken for ever. The hops are counted and the
\* elements assembled exactly for the first MaxHops passes; on the passes
\* after those, which only a chain with a cycle has, the chain is followed on
\* with r_hops and result standing for "MaxHops or more" and "these and more"
ReadPqHop ==
    /\ r_pc = "loop"
    /\ ~IsNull(next)
    /\ LET vn == ReadBytes(index, next)
       IN /\ result' = IF r_hops < MaxHops THEN result \o vn.vec ELSE result
          /\ next' = vn.next_vector_pointer
    /\ r_hops' = IF r_hops < MaxHops THEN r_hops + 1 ELSE r_hops
    /\ UNCHANGED <<gvars, BLCKSZ, index, pq, w_pc, pq_node, prev, prev_vec,
                   w_ret, corrupted, r_pc, rpn, r_ret>>

\* (faulty variant) a vector shorter than the shape is accepted
ShapeFitsAtMost(hdr, elems) == Len(elems) <= hdr.dim_0 * hdr.dim_1 * hdr.dim_2

\* Array3::from_shape_vec(...).unwrap()
ShapeFits(hdr, elems) == Len(elems) = hdr.dim_0 * hdr.dim_1 * hdr.dim_2

ReadPqFinish ==
    /\ r_pc = "loop"
    /\ IsNull(next)
    /\ IF ShapeFits(rpn, result)
       THEN /\ r_pc' = "done"
            /\ r_ret' = [dim |-> <<rpn.dim_0, rpn.dim_1, rpn.dim_2>>,
                         data |-> result]
       ELSE /\ r_pc' = "panic"
            /\ r_ret' = r_ret
    /\ UNCHANGED <<gvars, BLCKSZ, index, pq, w_pc, pq_node, prev, prev_vec,
                   w_ret, corrupted, rpn, result, next, r_hops>>

----------------------------------------------------------------------------
\* The in-memory incremental graph builder.

\* node pointers are the addresses (b, 1) for b in 1..MaxPtr
MaxPtr == 2
\* longest neighbor list handed to set_neighbors
MaxLen == 2
\* the configured num_neighbors (maximum fan-out) is drawn from 0..MaxFanOut
MaxFanOut == 1
NodePointers == { ItemPointerOf(b, 1) : b \in 1..MaxPtr }

\* Option<Vec<ItemPointer>>
None == [some |-> FALSE, ids |-> <<>>]
Some(v) == [some |-> TRUE, ids |-> v]

NeighborWithDistanceOf(p, d) == [index_pointer |-> p, distance |-> d]

\* the neighbor lists handed to set_neighbors for node p: the n node pointers
\* that follow p (fwd) or precede it, cyclically, the i-th at distance i
RECURSIVE NeighborList(_, _, _)
NeighborList(p, n, fwd) ==
    IF n = 0 THEN <<>>
    ELSE LET step == IF fwd THEN n ELSE n * (MaxPtr - 1)
             b == ((p.block_number - 1 + step) % MaxPtr) + 1
         IN Append(NeighborList(p, n - 1, fwd),
                   NeighborWithDistanceOf(ItemPointerOf(b, 1), n))

NeighborLists(p) == { NeighborList(p, n, f) : n \in 0..MaxLen, f \in BOOLEAN }

\* WriteStats::new (the start instant is left out)
WriteStatsNew ==
    [num_nodes |-> 0, num_prunes |-> 0, num_neighbors_before_prune |-> 0,
     num_neighbors_after_prune |-> 0, num_neighbors |-> 0]

\* MetaPage accessors and the bootstrap write of the entry points
MetaPageGetInitIds(mp) == mp.init_ids
MetaPageGetNumNeighbors(mp) == mp.num_neighbors
MetaPageUpdateInitIds(disk, ids) == [disk EXCEPT !.init_ids = Some(ids)]
MetaPageRead(disk) == disk

\* (faulty variant) the new list is added to the list already held
MapInsertConcat(m, k, v) ==
    [x \in (DOMAIN m) \cup {k} |->
        IF x = k THEN (IF k \in DOMAIN m THEN m[k] \o v ELSE v) ELSE m[x]]

\* HashMap::insert
MapInsert(m, k, v) == [x \in (DOMAIN m) \cup {k} |-> IF x = k THEN v ELSE m[x]]

\* HashMap::get
MapGet(m, k) == IF k \in DOMAIN m THEN Some(m[k]) ELSE None

\* the builder's queries leave the builder as it is; the query made and what
\* it returned are kept in the variable query, which holds NoQuery when
\* there is none
NoQuery ==
    [op |-> "none", neighbors_of |-> NullPointer, arg |-> <<>>,
     found |-> FALSE, result |-> <<>>, init_ids |-> None]

\* (faulty variant) every call registers its node as the entry point
NeedsBootstrapAlways(mp) == TRUE

\* set_neighbors: whether this call registers the entry point
NeedsBootstrap(mp) == ~MetaPageGetInitIds(mp).some

SetNeighbors(neighbors_of, new_neighbors) ==
    /\ g_pc = "build"
    /\ LET boot == NeedsBootstrap(meta_page)
           disk == IF boot
                   THEN MetaPageUpdateInitIds(index_meta, <<neighbors_of>>)
                   ELSE index_meta
       IN /\ index_meta' = disk
          /\ meta_page' = IF boot THEN MetaPageRead(disk) ELSE meta_page
    /\ neighbor_map' = MapInsert(neighbor_map, neighbors_of, new_neighbors)
    /\ last_set' = [last_set EXCEPT ![neighbors_of] =
                        [some |-> TRUE, ids |-> new_neighbors,
                         again |-> @.some /\ @.ids # <<>>]]
    /\ first_set' = IF ~init0.some /\ IsNull(first_set)
                    THEN neighbors_of ELSE first_set
    /\ query' = NoQuery
    /\ UNCHANGED <<pqvars, node_records, g_pc, stats, prune_calls, write_no,
                   policy, events, last_quantizer, init0>>

----------------------------------------------------------------------------
\* The builder's queries.

\* the result buffers handed to get_neighbors_with_distances: an empty one
\* and one that already holds an entry
ResultBuffers == { <<>>, <<NeighborWithDistanceOf(ItemPointerOf(1, 1), 0)>> }

\* n.iter().map(|n| n.get_index_pointer_to_neighbor()).collect()
RECURSIVE PointersOf(_)
PointersOf(n) ==
    IF n = <<>> THEN <<>>
    ELSE <<Head(n).index_pointer>> \o PointersOf(Tail(n))

\* get_neighbors: the returned vector
GetNeighborsRet(m, neighbors_of) ==
    LET neighbors == MapGet(m, neighbors_of)
    IN IF neighbors.some THEN PointersOf(neighbors.ids) ELSE <<>>

\* (faulty variant) a node holding an empty list is reported as unknown
GetNeighborsWithDistancesNonEmpty(m, neighbors_of, result0) ==
    LET neighbors == MapGet(m, neighbors_of)
    IN IF neighbors.some /\ neighbors.ids # <<>>
       THEN [found |-> TRUE, result |-> result0 \o neighbors.ids]
       ELSE [found |-> FALSE, result |-> result0]

\* get_neighbors_with_distances: the returned flag and the result buffer
\* after the call
GetNeighborsWithDistancesRet(m, neighbors_of, result0) ==
    LET neighbors == MapGet(m, neighbors_of)
    IN IF neighbors.some
       THEN [found |-> TRUE, result |-> result0 \o neighbors.ids]
       ELSE [found |-> FALSE, result |-> result0]

\* (faulty variant) a map whose lists are all empty counts as empty
IsEmptyNoEdges(m) == \A p \in DOMAIN m : m[p] = <<>>

\* is_empty: the returned flag
IsEmptyRet(m) == Cardinality(DOMAIN m) = 0

\* get_init_ids: the returned option
GetInitIdsRet(mp) == MetaPageGetInitIds(mp)

GetNeighbors(neighbors_of) ==
    /\ query' = [NoQuery EXCEPT
                   !.op = "get_neighbors",
                   !.neighbors_of = neighbors_of,
                   !.result = GetNeighborsRet(neighbor_map, neighbors_of)]
    /\ UNCHANGED <<pqvars, neighbor_map, meta_page, index_meta, node_records,
                   g_pc, stats, prune_calls, write_no, policy, events,
                   last_quantizer, last_set, first_set, init0>>

GetNeighborsWithDistances(neighbors_of, result0) ==
    /\ LET r == GetNeighborsWithDistancesRet(neighbor_map, neighbors_of,
                                             result0)
       IN query' = [NoQuery EXCEPT
                      !.op = "get_neighbors_with_distances",
                      !.neighbors_of = neighbors_of,
                      !.arg = result0,
                      !.found = r.found,
                      !.result = r.result]
    /\ UNCHANGED <<pqvars, neighbor_map, meta_page, index_meta, node_records,
                   g_pc, stats, prune_calls, write_no, policy, events,
                   last_quantizer, last_set, first_set, init0>>

IsEmpty ==
    /\ query' = [NoQuery EXCEPT
                   !.op = "is_empty",
                   !.found = IsEmptyRet(neighbor_map)]
    /\ UNCHANGED <<pqvars, neighbor_map, meta_page, index_meta, node_records,
                   g_pc, stats, prune_calls, write_no, policy, events,
                   last_quantizer, last_set, first_set, init0>>

GetInitIds ==
    /\ query' = [NoQuery EXCEPT
                   !.op = "get_init_ids",
                   !.init_ids = GetInitIdsRet(meta_page)]
    /\ UNCHANGED <<pqvars, neighbor_map, meta_page, index_meta, node_records,
                   g_pc, stats, prune_calls, write_no, policy, events,
                   last_quantizer, last_set, first_set, init0>>

----------------------------------------------------------------------------
\* The pruning policy and write.

\* all order-preserving selections of the elements of s
RECURSIVE SubSeqsOf(_)
SubSeqsOf(s) ==
    IF s = <<>> THEN { <<>> }
    ELSE LET r == SubSeqsOf(Tail(s))
         IN r \cup { <<Head(s)>> \o t : t \in r }

\* the pruning policy: what it may return for a node's current neighbors and
\* the extra candidates, at most max of them
PruneNeighbors(current, extra, max) ==
    { l \in SubSeqsOf(current \o extra) : Len(l) <= max }

\* (faulty variant) with a maximum of zero no list is pruned
NeedsPruneUnlessZero(neighbors, max) == max > 0 /\ Len(neighbors) > max

\* (faulty variant) a list of exactly max neighbors is pruned too
NeedsPruneAtMax(neighbors, max) == Len(neighbors) >= max

\* (faulty variant) a list one longer than max is let through
NeedsPruneLate(neighbors, max) == Len(neighbors) > max + 1

\* write: whether a node's list goes through the pruning policy
NeedsPrune(neighbors, max) == Len(neighbors) > max

\* (faulty variant) num_neighbors counts the lists as held by the map
CountNodeUnpruned(s0, neighbors, over, pruned) ==
    [s0 EXCEPT
       !.num_nodes = @ + 1,
       !.num_prunes = IF over THEN @ + 1 ELSE @,
       !.num_neighbors_before_prune = IF over THEN @ + Len(neighbors) ELSE @,
       !.num_neighbors_after_prune = IF over THEN @ + Len(pruned) ELSE @,
       !.num_neighbors = @ + Len(neighbors)]

\* write: the statistics after one pass of the loop body, for a node whose
\* list in the map is neighbors and whose pruned list (when over) is pruned
CountNode(s0, neighbors, over, pruned) ==
    [s0 EXCEPT
       !.num_nodes = @ + 1,
       !.num_prunes = IF over THEN @ + 1 ELSE @,
       !.num_neighbors_before_prune = IF over THEN @ + Len(neighbors) ELSE @,
       !.num_neighbors_after_prune = IF over THEN @ + Len(pruned) ELSE @,
       !.num_neighbors = @ + Len(IF over THEN pruned ELSE neighbors)]

\* (faulty variant) the record is committed before the quantizer's steps
NodeStepsCommitFirst(quantizer) ==
    IF quantizer = "PQ"
    THEN <<"set_neighbors", "commit", "get_full_vector",
           "update_node_after_traing">>
    ELSE <<"set_neighbors", "commit">>

\* write: the steps one pass of the loop body takes on the node's record, in
\* program order
NodeSteps(quantizer) ==
    IF quantizer = "PQ"
    THEN <<"set_neighbors", "get_full_vector", "update_node_after_traing",
           "commit">>
    ELSE <<"set_neighbors", "commit">>

\* the effect of one step on the record opened by Node::modify: w holds the
\* record, the raw vector fetched (named by its heap pointer, 0 when none was
\* fetched) and the steps taken so far with their arguments
NodeStep(w, step, used) ==
    CASE step = "set_neighbors" ->
            [w EXCEPT !.node.neighbors = used,
                      !.log = Append(@, <<step, Len(used)>>)]
      [] step = "get_full_vector" ->
            [w EXCEPT !.full_vector = w.node.heap_item_pointer,
                      !.log = Append(@, <<step, w.node.heap_item_pointer>>)]
      [] step = "update_node_after_traing" ->
            [w EXCEPT !.node.pq_vector = w.full_vector,
                      !.log = Append(@, <<step, w.full_vector>>)]
      [] step = "commit" ->
            [w EXCEPT !.node.commits = @ + 1,
                      !.log = Append(@, <<step, w.node.commits + 1>>)]

RECURSIVE NodeStepsApply(_, _, _)
NodeStepsApply(w, steps, used) ==
    IF steps = <<>> THEN w
    ELSE NodeStepsApply(NodeStep(w, Head(steps), used), Tail(steps), used)

\* write: one pass of the loop body for node index_pointer; st holds the
\* statistics, the node records, the calls made to the pruning policy, the
\* policy's answers and the steps taken on each record; pruned is the
\* policy's answer for this node
WriteNode(st, index_pointer, pruned, quantizer) ==
    LET neighbors == neighbor_map[index_pointer]
        over == NeedsPrune(neighbors, MetaPageGetNumNeighbors(meta_page))
        used == IF over THEN pruned ELSE neighbors
        w == NodeStepsApply([node |-> st.records[index_pointer],
                             full_vector |-> 0, log |-> <<>>],
                            NodeSteps(quantizer), used)
    IN [stats |-> CountNode(st.stats, neighbors, over, pruned),
        records |-> [x \in DOMAIN st.records |->
                       IF x = index_pointer THEN w.node ELSE st.records[x]],
        calls |-> [x \in DOMAIN st.calls |->
                     IF over /\ x = index_pointer
                     THEN Append(st.calls[x], <<>>) ELSE st.calls[x]],
        answers |-> IF over
                    THEN [st.answers EXCEPT ![index_pointer] = Some(pruned)]
                    ELSE st.answers,
        events |-> [x \in DOMAIN st.events |->
                      IF x = index_pointer THEN w.log ELSE st.events[x]]]

\* the answers the pruning policy may give for node p during a write: the
\* policy is a function of the builder's state, so a node it has answered for
\* gets the same answer again
PruneAnswers(st, p) ==
    LET max == MetaPageGetNumNeighbors(meta_page)
    IN IF ~NeedsPrune(neighbor_map[p], max) THEN { <<>> }
       ELSE IF st.answers[p].some THEN { st.answers[p].ids }
       ELSE PruneNeighbors(neighbor_map[p], <<>>, max)

\* write: the loop over the map's entries (the map's order is arbitrary and
\* the passes are independent of each other); the outcomes, one for each
\* combination of answers of the pruning policy
RECURSIVE WriteLoop(_, _, _)
WriteLoop(todo, st, quantizer) ==
    IF todo = {} THEN { st }
    ELSE LET p == CHOOSE x \in todo : TRUE
         IN UNION { WriteLoop(todo \ {p}, WriteNode(st, p, a, quantizer),
                              quantizer) : a \in PruneAnswers(st, p) }

\* (faulty variant) the pruned lists replace the lists of the map
MapAfterWritePruned(m, answers) ==
    [p \in DOMAIN m |-> IF answers[p].some THEN answers[p].ids ELSE m[p]]

\* write borrows the builder immutably: the pruned lists live in a local of
\* the loop body and the map is as it was
MapAfterWrite(m, answers) == m

\* write: the outcomes of the loop started with fresh statistics on the
\* records as stored
WriteOutcomes(quantizer) ==
    WriteLoop(DOMAIN neighbor_map,
              [stats |-> WriteStatsNew,
               records |-> node_records,
               calls |-> [p \in NodePointers |-> <<>>],
               answers |-> policy,
               events |-> [p \in NodePointers |-> <<>>]],
              quantizer)

Write(quantizer) ==
    /\ g_pc # "rewritten"
    /\ \E st \in WriteOutcomes(quantizer) :
          /\ stats' = st.stats
          /\ node_records' = st.records
          /\ prune_calls' = st.calls
          /\ policy' = st.answers
          /\ events' = st.events
          /\ neighbor_map' = MapAfterWrite(neighbor_map, st.answers)
    /\ last_quantizer' = quantizer
    /\ g_pc' = IF g_pc = "build" THEN "written" ELSE "rewritten"
    /\ write_no' = write_no + 1
    /\ UNCHANGED <<pqvars, query, meta_page, index_meta, last_set, first_set,
                   init0>>

----------------------------------------------------------------------------
\* Specifications.

PQInitial ==
    /\ BLCKSZ \in BlockSizes
    /\ index = <<>>
    /\ pq = NoPq
    /\ w_pc = "idle"
    /\ pq_node = NoRecord
    /\ prev = NullPointer
    /\ prev_vec = <<>>
    /\ w_ret = NullPointer
    /\ corrupted = FALSE
    /\ r_pc = "idle"
    /\ rpn = NoRecord
    /\ result = <<>>
    /\ next = NullPointer
    /\ r_hops = 0
    /\ r_ret = NoPq

GraphInitial ==
    /\ init0 \in { None, Some(<<ItemPointerOf(1, 1)>>) }
    /\ \E n \in 0..MaxFanOut :
          index_meta = [init_ids |-> init0, num_neighbors |-> n]
    /\ meta_page = MetaPageRead(index_meta)
    /\ neighbor_map = <<>>
    /\ node_records =
          [p \in NodePointers |->
              [heap_item_pointer |-> p.block_number, neighbors |-> <<>>,
               pq_vector |-> 0, commits |-> 0]]
    /\ g_pc = "build"
    /\ stats = WriteStatsNew
    /\ prune_calls = [p \in NodePointers |-> <<>>]
    /\ write_no = 0
    /\ policy = [p \in NodePointers |-> None]
    /\ events = [p \in NodePointers |-> <<>>]
    /\ last_quantizer = "-"
    /\ query = NoQuery
    /\ last_set = [p \in NodePointers |->
                      [some |-> FALSE, ids |-> <<>>, again |-> FALSE]]
    /\ first_set = NullPointer

\* the codec storage with a block size fixed, for the builder's specification
PQFixed == PQInitial /\ BLCKSZ = MinBlockSize

\* the builder with its configuration fixed, for the codec's specification
GraphFixed ==
    GraphInitial /\ init0 = None /\ MetaPageGetNumNeighbors(index_meta) = 0

InitPQ == PQInitial /\ GraphFixed

NextPQ ==
    \/ \E p \in Quantizers : WritePqBegin(p)
    \/ WritePqChunk
    \/ WritePqHeader
    \/ WritePqAllocFault
    \/ \E b \in 1..MaxPages, t \in 1..MaxPages : Corrupt(b, t)
    \/ ReadPqBegin
    \/ ReadPqHop
    \/ ReadPqFinish

SpecPQ == InitPQ /\ [][NextPQ]_vars

\* write_pq runs on: a pass of its loop that can be taken is taken, and a
\* write to a page store that is out of space raises
SpecPQFair ==
    /\ SpecPQ
    /\ WF_vars(WritePqChunk)
    /\ WF_vars(WritePqHeader)
    /\ WF_vars(TapeFull(index) /\ WritePqAllocFault)

InitGraph == GraphInitial /\ PQFixed

NextGraph ==
    \/ \E p \in NodePointers : \E l \in NeighborLists(p) : SetNeighbors(p, l)
    \/ \E q \in {"None", "PQ"} : Write(q)

SpecGraph == InitGraph /\ [][NextGraph]_vars

\* the builder while it is being built: set_neighbors and the queries
NextQuery ==
    \/ \E p \in NodePointers : \E l \in NeighborLists(p) : SetNeighbors(p, l)
    \/ \E p \in NodePointers : GetNeighbors(p)
    \/ \E p \in NodePointers : \E r \in ResultBuffers :
          GetNeighborsWithDistances(p, r)
    \/ IsEmpty
    \/ GetInitIds

SpecQuery == InitGraph /\ [][NextQuery]_vars

----------------------------------------------------------------------------
\* Properties of the quantizer codec storage, under SpecPQ.

Fit == BlockFit(BLCKSZ)

CeilDiv(a, b) == (a + b - 1) \div b

\* the hop bound of a chain of n elements
HopBound(n, fit) == CeilDiv(n, IF fit >= 1 THEN fit ELSE 1)

RECURSIVE ChunkElements(_)
\* number of elements held by the chunk records of the store
ChunkElements(idx) ==
    IF idx = <<>> THEN 0
    ELSE Len(idx[Len(idx)].vec) + ChunkElements(SubSeq(idx, 1, Len(idx) - 1))

\* C1: write_pq followed by read_pq on the returned header pointer returns
\* the input: the same shape and the same elements in the same order, for
\* every length and every block_fit >= 1 (the decode of an undamaged chain
\* never fails).
C1_RoundTrip ==
    (~corrupted /\ r_pc \in {"done", "panic"}) =>
        /\ r_pc = "done"
        /\ r_ret.data = pq.data
        /\ r_ret.dim = pq.dim

\* C1 witness: a tensor longer than two pages, its last-written chunk
\* partly filled, has been decoded
C1_Witness ==
    /\ r_pc = "done" /\ ~corrupted
    /\ Fit >= 2
    /\ Len(pq.data) > 2 * Fit
    /\ Len(pq.data) % Fit # 0
    /\ r_ret = pq

\* C6: on an undamaged chain written with block_fit >= 1, read_pq reads at
\* most ceil(L / block_fit) chunks and then stands at the zero/zero pointer.
C6_HopBound ==
    (~corrupted /\ r_pc # "idle" /\ Fit >= 1) =>
        /\ r_hops <= CeilDiv(Len(pq.data), Fit)
        /\ (r_hops = CeilDiv(Len(pq.data), Fit) => IsNull(next))

\* C6 witness: a decode that took three or more hops of a chain with
\* block_fit >= 2 and reached the bound
C6_Witness ==
    /\ r_pc = "done" /\ ~corrupted
    /\ Fit >= 2
    /\ r_hops >= 3
    /\ r_hops = CeilDiv(Len(pq.data), Fit)

\* C7 (as stated): on a damaged chain read_pq follows no more hops than the
\* bound ceil(vec_len / max(1, block_fit)); it stops with a fault instead.
C7_BoundedOnCorruption ==
    (corrupted /\ r_pc # "idle") => r_hops <= HopBound(rpn.vec_len, Fit)

\* C8: the header is written last: a header is in the store only once
\* write_pq has written every chunk and returned, it is the last record
\* written, and an encode aborted by an allocation fault leaves no header.
C8_HeaderLast ==
    /\ (HeaderBlocks(index) # {} =>
            /\ w_pc = "done"
            /\ prev_vec = <<>>
            /\ HeaderBlocks(index) = {Len(index)}
            /\ ChunkElements(index) = Len(pq.data))
    /\ (w_pc \in {"loop", "aborted"} => HeaderBlocks(index) = {})

\* C8 witness: an encode aborted after some chunks, with elements left
C8_Witness ==
    /\ w_pc = "aborted"
    /\ Cardinality(ChunkBlocks(index)) >= 2
    /\ prev_vec # <<>>
    /\ HeaderBlocks(index) = {}

\* C9 (as stated): with block_fit <= 0, write_pq writes no chunk.
C9_CapacityFault ==
    Fit <= 0 => ChunkBlocks(index) = {}

\* the header record written by write_pq
Header == ReadBytes(index, w_ret)

\* the total a header declares through its shape
DeclaredTotal(hdr) == hdr.dim_0 * hdr.dim_1 * hdr.dim_2

RECURSIVE ChainBlocks(_, _, _)
\* the blocks of the chunks met by following the chain from pointer p, in
\* the order met, for at most fuel hops
ChainBlocks(idx, p, fuel) ==
    IF IsNull(p) \/ fuel = 0 THEN <<>>
    ELSE <<p.block_number>> \o
         ChainBlocks(idx, ReadBytes(idx, p).next_vector_pointer, fuel - 1)

RECURSIVE BlocksElements(_, _)
\* the number of elements held by the chunks at the blocks bs
BlocksElements(idx, bs) ==
    IF bs = <<>> THEN 0
    ELSE Len(idx[Head(bs)].vec) + BlocksElements(idx, Tail(bs))

\* C13: read_pq never returns a tensor built from an element count other
\* than the header's declared total: the header and chain written by
\* write_pq hold vec_len = dim_0 * dim_1 * dim_2 elements along the chain, a
\* decode that returns has assembled exactly that many, and a decode that
\* reaches the end of a chain with any other count faults.
C13_SizeMatch ==
    /\ (w_pc = "done" /\ ~corrupted) =>
          /\ Header.vec_len = DeclaredTotal(Header)
          /\ BlocksElements(index,
                 ChainBlocks(index, Header.next_vector_pointer, Len(index)))
               = Header.vec_len
    /\ r_pc = "done" =>
          /\ Len(r_ret.data) = rpn.vec_len
          /\ Len(r_ret.data) = DeclaredTotal(rpn)
          /\ r_ret.data = result
    /\ (r_pc \in {"done", "panic"} /\ Len(result) # rpn.vec_len) =>
          r_pc = "panic"
    /\ (r_pc = "panic") => Len(result) # DeclaredTotal(rpn)

\* C13 witness: the decode of a damaged chain reached the chain's end with
\* fewer elements than declared, having read two chunks or more, and faulted
C13_Witness ==
    /\ r_pc = "panic"
    /\ corrupted
    /\ IsNull(next)
    /\ r_hops >= 2
    /\ Len(result) < rpn.vec_len

\* the smaller of two numbers
Min(a, b) == IF a <= b THEN a ELSE b

\* the number of chunk records in the store
NumChunks == Cardinality(ChunkBlocks(index))

\* C15: after an encode the chain is well formed: the chunks are the first
\* records of the tape; the first chunk written holds the last min(L, fit)
\* elements and the zero/zero pointer; every later chunk points at the chunk
\* written just before it; the header points at the last-written chunk
\* (zero/zero when L = 0); every chunk holds between 1 and fit elements and
\* only the last-written chunk may hold fewer than fit; following the chain
\* from the header meets every chunk once, last-written first, and ends.
C15_ChainWellFormed ==
    (w_pc = "done" /\ ~corrupted) =>
        LET L == Len(pq.data)
            k == NumChunks
            chain == ChainBlocks(index, Header.next_vector_pointer,
                                 Len(index))
        IN /\ ChunkBlocks(index) = 1..k
           /\ k >= 1 =>
                 /\ index[1].vec = SubSeq(pq.data, L - Min(L, Fit) + 1, L)
                 /\ index[1].next_vector_pointer = NullPointer
           /\ \A b \in 2..k :
                 index[b].next_vector_pointer = ItemPointerOf(b - 1, 1)
           /\ Header.next_vector_pointer =
                 (IF L = 0 THEN NullPointer ELSE ItemPointerOf(k, 1))
           /\ \A b \in 1..k :
                 /\ Len(index[b].vec) >= 1
                 /\ Len(index[b].vec) <= Fit
                 /\ b < k => Len(index[b].vec) = Fit
           /\ Len(chain) = k
           /\ \A i \in 1..k : chain[i] = k + 1 - i

\* C15 witness: an encode of eight elements at three to a page: chunks of
\* three, three and two elements
C15_Witness ==
    /\ w_pc = "done" /\ ~corrupted
    /\ Fit = 3
    /\ Len(pq.data) = 8
    /\ NumChunks = 3
    /\ Len(index[1].vec) = 3
    /\ Len(index[2].vec) = 3
    /\ Len(index[3].vec) = 2
    /\ index[3].next_vector_pointer = ItemPointerOf(2, 1)

\* the larger of two numbers
Max(a, b) == IF a >= b THEN a ELSE b

\* write_pq with block_fit >= 1: after k chunks, L - k * block_fit elements
\* are left (none once k * block_fit >= L); no header is in the store before
\* the encode has returned, and then exactly one, after ceil(L / block_fit)
\* chunks
ChunksCounted ==
    (Fit >= 1 /\ w_pc # "idle") =>
        /\ Len(prev_vec) = Max(0, Len(pq.data) - NumChunks * Fit)
        /\ NumChunks <= CeilDiv(Len(pq.data), Fit)
        /\ w_pc = "done" =>
              /\ NumChunks = CeilDiv(Len(pq.data), Fit)
              /\ Cardinality(HeaderBlocks(index)) = 1
        /\ w_pc # "done" => HeaderBlocks(index) = {}

\* write_pq with block_fit >= 1: a pass of the loop that writes a chunk
\* leaves fewer elements to write
RemainingDecreases ==
    (Fit >= 1 /\ w_pc = "loop" /\ w_pc' = "loop" /\ index' # index) =>
        Len(prev_vec') < Len(prev_vec)

\* C18: for every length L and every block_fit >= 1 write_pq terminates:
\* each chunk written leaves strictly fewer elements to write, exactly
\* ceil(L / block_fit) chunks are written and then exactly one header, and
\* an encode that has begun returns (or is ended by an allocation fault).
C18_Terminates ==
    /\ []ChunksCounted
    /\ [][RemainingDecreases]_vars
    /\ (w_pc = "loop" /\ Fit >= 1) ~> (w_pc \in {"done", "aborted"})

\* C18 witness: an encode of eight elements at one to a page has returned
\* after eight chunks and one header
C18_Witness ==
    /\ w_pc = "done"
    /\ Fit = 1
    /\ Len(pq.data) = 8
    /\ NumChunks = 8
    /\ HeaderBlocks(index) = {9}

----------------------------------------------------------------------------
\* Properties of the graph builder, under SpecGraph.

\* the configured maximum fan-out
MaxFanOutOf == index_meta.num_neighbors

\* C2: after write, a node whose list is no longer than max_fan_out holds
\* that list unchanged on its record and the pruning policy was not invoked
\* for it; a node with a longer list went through the pruning policy exactly
\* once, with no extra candidates, and its record holds the policy's answer.
C2_PruneBoundary ==
    g_pc # "build" =>
        \A p \in DOMAIN neighbor_map :
            IF Len(neighbor_map[p]) <= MaxFanOutOf
            THEN /\ node_records[p].neighbors = neighbor_map[p]
                 /\ prune_calls[p] = <<>>
            ELSE /\ prune_calls[p] = << <<>> >>
                 /\ policy[p].some
                 /\ node_records[p].neighbors = policy[p].ids

\* C2 witness: a write of a node with no neighbors and of a node over
\* capacity, with a positive max_fan_out
C2_Witness ==
    /\ g_pc = "written"
    /\ MaxFanOutOf >= 1
    /\ \E p, q \in DOMAIN neighbor_map :
          /\ neighbor_map[p] = <<>>
          /\ node_records[p].neighbors = <<>>
          /\ Len(neighbor_map[q]) > MaxFanOutOf
          /\ prune_calls[q] = << <<>> >>
          /\ node_records[q].neighbors # <<>>

\* C3: after write, no record of a node of the map holds more than
\* max_fan_out neighbors.
C3_FanOutBounded ==
    g_pc # "build" =>
        \A p \in DOMAIN neighbor_map :
            Len(node_records[p].neighbors) <= MaxFanOutOf

\* C3 witness: a node set twice, last with a list over capacity, written
\* with exactly max_fan_out neighbors
C3_Witness ==
    /\ g_pc = "written"
    /\ MaxFanOutOf >= 1
    /\ \E p \in DOMAIN neighbor_map :
          /\ last_set[p].again
          /\ Len(neighbor_map[p]) > MaxFanOutOf
          /\ Len(node_records[p].neighbors) = MaxFanOutOf

\* C4: on a builder created without entry points the first set_neighbors
\* call makes its node the sole entry point and no later call changes it; on
\* a builder created with entry points no call changes them.
C4_EntryPointBootstrap ==
    /\ init0.some =>
          /\ MetaPageGetInitIds(meta_page) = init0
          /\ MetaPageGetInitIds(index_meta) = init0
    /\ ~init0.some =>
          IF IsNull(first_set)
          THEN MetaPageGetInitIds(meta_page) = None
          ELSE /\ MetaPageGetInitIds(meta_page) = Some(<<first_set>>)
               /\ MetaPageGetInitIds(index_meta) = Some(<<first_set>>)

\* C4 witness: a builder created without entry points, after calls for its
\* first node and for another node
C4_Witness ==
    /\ ~init0.some
    /\ ~IsNull(first_set)
    /\ MetaPageGetInitIds(meta_page) = Some(<<first_set>>)
    /\ last_set[first_set].again
    /\ \E p \in DOMAIN neighbor_map : p # first_set

\* C5: the map holds, for each node pointer, exactly the list of the latest
\* set_neighbors call for it, and nothing for a pointer never set.
C5_Overwrite ==
    \A p \in NodePointers :
        IF last_set[p].some
        THEN MapGet(neighbor_map, p) = Some(last_set[p].ids)
        ELSE MapGet(neighbor_map, p) = None

\* C5 witness: a node set again after a non-empty list, with a non-empty
\* list, beside another node
C5_Witness ==
    \E p, q \in DOMAIN neighbor_map :
        /\ p # q
        /\ last_set[p].again
        /\ neighbor_map[p] # <<>>
        /\ neighbor_map[p] = last_set[p].ids

\* C10 (as stated): a second write on the same builder persists nothing:
\* no node record is committed more than once.
C10_WriteOnce ==
    \A p \in NodePointers : node_records[p].commits <= 1

\* the nodes of the map whose lists are over capacity
OverCapacity == { p \in DOMAIN neighbor_map :
                    Len(neighbor_map[p]) > MaxFanOutOf }

RECURSIVE SumLen(_, _)
\* the sum of the lengths of the lists that l holds for the nodes of S
SumLen(S, l) ==
    IF S = {} THEN 0
    ELSE LET p == CHOOSE x \in S : TRUE
         IN Len(l[p]) + SumLen(S \ {p}, l)

\* C11: the statistics returned by write: num_nodes is the number of map
\* entries, num_prunes the number of entries longer than max_fan_out,
\* num_neighbors_before_prune the sum of the lengths of those entries,
\* num_neighbors_after_prune the sum of their pruned lengths, num_neighbors
\* the sum of the lengths of all persisted lists; an empty builder persists
\* no node and returns all-zero counters.
C11_WriteStats ==
    g_pc # "build" =>
        /\ stats.num_nodes = Cardinality(DOMAIN neighbor_map)
        /\ stats.num_prunes = Cardinality(OverCapacity)
        /\ stats.num_neighbors_before_prune = SumLen(OverCapacity, neighbor_map)
        /\ stats.num_neighbors_after_prune =
              SumLen(OverCapacity, [p \in NodePointers |-> policy[p].ids])
        /\ stats.num_neighbors =
              SumLen(DOMAIN neighbor_map,
                     [p \in NodePointers |-> node_records[p].neighbors])
        /\ (DOMAIN neighbor_map = {} =>
              /\ stats = WriteStatsNew
              /\ \A p \in NodePointers : node_records[p].commits = 0)

\* C11 witness: a write of one node within capacity and one node over
\* capacity whose pruned list is shorter than its list in the map
C11_Witness ==
    /\ g_pc = "written"
    /\ Cardinality(OverCapacity) = 1
    /\ stats.num_nodes = 2
    /\ stats.num_prunes = 1
    /\ stats.num_neighbors_after_prune >= 1
    /\ stats.num_neighbors_before_prune > stats.num_neighbors_after_prune
    /\ stats.num_neighbors > stats.num_neighbors_after_prune

\* C14: write with max_fan_out = 0 runs to its end: its loop has an outcome
\* whatever the map holds, and after it every node of the map has been
\* committed with an empty list on its record, a node with a non-empty list
\* having gone through the pruning policy once and a node with an empty list
\* not at all.
C14_ZeroFanOut ==
    MaxFanOutOf = 0 =>
        /\ g_pc = "build" =>
              \A q \in {"None", "PQ"} : WriteOutcomes(q) # {}
        /\ g_pc # "build" =>
              \A p \in DOMAIN neighbor_map :
                  /\ node_records[p].neighbors = <<>>
                  /\ node_records[p].commits >= 1
                  /\ Len(prune_calls[p]) =
                        (IF neighbor_map[p] = <<>> THEN 0 ELSE 1)

\* C14 witness: a write with max_fan_out = 0 of a node with an empty list
\* and a node with a list of two neighbors
C14_Witness ==
    /\ MaxFanOutOf = 0
    /\ g_pc = "written"
    /\ \E p, q \in DOMAIN neighbor_map :
          /\ neighbor_map[p] = <<>>
          /\ prune_calls[p] = <<>>
          /\ Len(neighbor_map[q]) >= 2
          /\ Len(prune_calls[q]) = 1
          /\ node_records[q].neighbors = <<>>
          /\ node_records[q].commits = 1

\* C16: write takes each node of the map once and, on its record, first
\* stores the (possibly pruned) list, then, only under the PQ quantizer,
\* fetches the raw vector through the record's heap pointer and stores the
\* code recomputed from it, then commits; under Quantizer::None nothing is
\* fetched and no code is written; each write commits each node once, and
\* takes no step on the record of a node that is not in the map.
C16_NodeOrder ==
    g_pc # "build" =>
        \A p \in NodePointers :
            LET e == events[p]
                node == node_records[p]
            IN IF p \notin DOMAIN neighbor_map THEN e = <<>>
               ELSE /\ e[1] = <<"set_neighbors", Len(node.neighbors)>>
                    /\ e[Len(e)] = <<"commit", write_no>>
                    /\ node.commits = write_no
                    /\ IF last_quantizer = "PQ"
                       THEN /\ Len(e) = 4
                            /\ e[2] = <<"get_full_vector",
                                        node.heap_item_pointer>>
                            /\ e[3] = <<"update_node_after_traing",
                                        node.heap_item_pointer>>
                            /\ node.pq_vector = node.heap_item_pointer
                       ELSE /\ Len(e) = 2
                            /\ write_no = 1 => node.pq_vector = 0

\* C16 witness: a write under the PQ quantizer of two nodes, one of them
\* pruned: each record took the four steps and holds its code
C16_Witness ==
    /\ g_pc = "written"
    /\ last_quantizer = "PQ"
    /\ Cardinality(DOMAIN neighbor_map) = 2
    /\ \E p \in DOMAIN neighbor_map : prune_calls[p] # <<>>
    /\ \A p \in DOMAIN neighbor_map :
          /\ Len(events[p]) = 4
          /\ node_records[p].pq_vector = p.block_number
          /\ node_records[p].commits = 1

\* a step of write: the adjacency map and the metadata snapshot with its
\* entry points are as before, and so are the records of the nodes that are
\* not in the map, on which no step was taken
WriteFrame ==
    write_no' # write_no =>
        /\ neighbor_map' = neighbor_map
        /\ meta_page' = meta_page
        /\ GetInitIdsRet(meta_page') = GetInitIdsRet(meta_page)
        /\ \A p \in NodePointers \ DOMAIN neighbor_map :
              /\ node_records'[p] = node_records[p]
              /\ events'[p] = <<>>

\* C19: write leaves the builder's in-memory state as it was: the adjacency
\* map, with the unpruned lists of its over-capacity nodes, and the
\* entry-point list are the same after write as before, and write neither
\* modifies nor commits the record of a node that is not in the map.
C19_WriteFrame == [][WriteFrame]_vars

\* C19 witness: after a write the map still holds the list of a node over
\* capacity whose record holds the pruned list, and the record of a node
\* that is not in the map has not been committed
C19_Witness ==
    /\ g_pc = "written"
    /\ MaxFanOutOf >= 1
    /\ GetInitIdsRet(meta_page).some
    /\ \E p \in DOMAIN neighbor_map :
          /\ Len(neighbor_map[p]) > MaxFanOutOf
          /\ neighbor_map[p] = last_set[p].ids
          /\ Len(node_records[p].neighbors) = MaxFanOutOf
          /\ node_records[p].commits = 1
    /\ \E q \in NodePointers \ DOMAIN neighbor_map :
          /\ node_records[q].commits = 0
          /\ node_records[q].neighbors = <<>>

----------------------------------------------------------------------------
\* Properties of the builder's queries, under SpecQuery.

\* whether some set_neighbors call has been made for node p
WasSet(p) == last_set[p].some

\* the list of the latest set_neighbors call for p, empty if there was none
LatestList(p) == IF WasSet(p) THEN last_set[p].ids ELSE <<>>

\* what the query made must have returned, given the calls made before it
QueryAnswered(q) ==
    /\ q.op = "get_neighbors_with_distances" =>
          /\ q.found <=> WasSet(q.neighbors_of)
          /\ q.found => q.result = q.arg \o LatestList(q.neighbors_of)
          /\ ~q.found => q.result = q.arg
    /\ q.op = "get_neighbors" =>
          /\ Len(q.result) = Len(LatestList(q.neighbors_of))
          /\ \A i \in 1..Len(q.result) :
                q.result[i] = LatestList(q.neighbors_of)[i].index_pointer

\* C12: get_neighbors_with_distances returns found = true exactly when an
\* earlier set_neighbors call gave the pointer a list, and then has added
\* that list (nothing, when it is empty) to the result buffer; it returns
\* found = false for an unknown pointer and leaves the buffer untouched;
\* get_neighbors returns the neighbor pointers of the stored list in list
\* order, or an empty sequence for an unknown pointer.
C12_Queries == QueryAnswered(query)

\* C12 witness: get_neighbors_with_distances has been called with a buffer
\* holding an entry, for a node whose list is empty beside a node that is
\* unknown; it returned true and the buffer as it was
C12_Witness ==
    /\ query.op = "get_neighbors_with_distances"
    /\ query.arg # <<>>
    /\ query.found
    /\ query.result = query.arg
    /\ MapGet(neighbor_map, query.neighbors_of) = Some(<<>>)
    /\ \E p \in NodePointers : MapGet(neighbor_map, p) = None

\* C17: after any sequence of set_neighbors calls, is_empty() is true
\* exactly when no set_neighbors call has been made; whenever is_empty() is
\* false get_init_ids() is not None; get_init_ids() is None only on a builder
\* created without entry points on which no set_neighbors call has been made.
C17_EmptyAndEntryPoints ==
    /\ IsEmptyRet(neighbor_map) <=> (\A p \in NodePointers : ~WasSet(p))
    /\ ~IsEmptyRet(neighbor_map) => GetInitIdsRet(meta_page).some
    /\ ~GetInitIdsRet(meta_page).some =>
          /\ ~init0.some
          /\ \A p \in NodePointers : ~WasSet(p)
    /\ query.op = "is_empty" =>
          (query.found <=> (\A p \in NodePointers : ~WasSet(p)))
    /\ query.op = "get_init_ids" /\ ~query.init_ids.some =>
          /\ ~init0.some
          /\ \A p \in NodePointers : ~WasSet(p)

\* C17 witness: on a builder created without entry points whose only
\* set_neighbors call gave a node an empty list, is_empty() has returned
\* false and the entry point is registered
C17_Witness ==
    /\ ~init0.some
    /\ query.op = "is_empty"
    /\ ~query.found
    /\ Cardinality(DOMAIN neighbor_map) = 1
    /\ \A p \in DOMAIN neighbor_map :
          neighbor_map[p] = <<>> /\ ~last_set[p].again
    /\ GetInitIdsRet(meta_page).some

====
